---- MODULE Spec2Model ----
(***************************************************************************)
(* Four-load-cell centre-of-gravity scale (Bilancia4_10.ino).              *)
(*                                                                         *)
(* Numbers.  The sketch computes in C float.  Here a float is an extended  *)
(* rational <<n, d>> in lowest terms with d >= 0: d > 0 is the finite      *)
(* value n/d, <<1,0>> and <<-1,0>> are +inf and -inf, <<0,0>> is NaN, with *)
(* the IEEE rules for division by zero and for inf/NaN operands.           *)
(* Arithmetic on finite values is exact; a corrected weight is carried at  *)
(* a resolution of 1/FIX kg when it is stored in a smoothing window.       *)
(***************************************************************************)
EXTENDS Integers, Sequences, FiniteSets, TLC

\* ------------------------------------------------------------------------
\* Extended rationals
\* ------------------------------------------------------------------------
Abs(x) == IF x < 0 THEN -x ELSE x

Sign(x) == IF x > 0 THEN 1 ELSE IF x < 0 THEN -1 ELSE 0

RECURSIVE GCD(_, _)
GCD(a, b) == IF b = 0 THEN a ELSE GCD(b, a % b)

NaN == <<0, 0>>

PosInf == <<1, 0>>

NegInf == <<-1, 0>>

Zero == <<0, 1>>

IsNaN(a) == a = NaN

IsFinite(a) == a[2] > 0

RNorm(n, d) ==
  IF d = 0 THEN <<Sign(n), 0>>
  ELSE LET s == IF d < 0 THEN -1 ELSE 1
           g == GCD(Abs(n), Abs(d))
       IN  <<(s * n) \div g, Abs(d) \div g>>

R(k) == <<k, 1>>

RNeg(a) == <<-a[1], a[2]>>

RMul(a, b) ==
  IF IsNaN(a) \/ IsNaN(b) THEN NaN
  ELSE IF ~IsFinite(a) \/ ~IsFinite(b)
       THEN <<Sign(a[1]) * Sign(b[1]), 0>>
       ELSE LET g1 == GCD(Abs(a[1]), b[2])
                g2 == GCD(Abs(b[1]), a[2])
            IN  RNorm((a[1] \div g1) * (b[1] \div g2),
                      (a[2] \div g2) * (b[2] \div g1))

\* 1/b; 1/0 is +inf (the sums and samples of the sketch never carry -0.0)
RInv(b) ==
  IF IsNaN(b) THEN NaN
  ELSE IF ~IsFinite(b) THEN Zero
  ELSE IF b[1] = 0 THEN PosInf
  ELSE <<Sign(b[1]) * b[2], Abs(b[1])>>

RDiv(a, b) == RMul(a, RInv(b))

RAdd(a, b) ==
  IF IsNaN(a) \/ IsNaN(b) THEN NaN
  ELSE IF ~IsFinite(a) /\ ~IsFinite(b)
       THEN (IF a = b THEN a ELSE NaN)
  ELSE IF ~IsFinite(a) THEN a
  ELSE IF ~IsFinite(b) THEN b
  ELSE LET g == GCD(a[2], b[2])
       IN  RNorm(a[1] * (b[2] \div g) + b[1] * (a[2] \div g),
                 (a[2] \div g) * b[2])

\* a > b as C compares floats: false when either side is NaN
RGt(a, b) ==
  IF IsNaN(a) \/ IsNaN(b) THEN FALSE
  ELSE IF ~IsFinite(a) \/ ~IsFinite(b)
       THEN (IF a = b THEN FALSE
             ELSE IF ~IsFinite(a) THEN a = PosInf ELSE b = NegInf)
       ELSE a[1] * b[2] > b[1] * a[2]

\* nearest integer of a finite value, halves away from zero
RRound(a) ==
  LET q == Abs(a[1]) \div a[2]
      r == Abs(a[1]) % a[2]
  IN  Sign(a[1]) * (IF r >= a[2] - r THEN q + 1 ELSE q)

RECURSIVE RSum(_, _)
RSum(s, k) == IF k = 0 THEN Zero ELSE RAdd(RSum(s, k - 1), s[k])

\* ------------------------------------------------------------------------
\* Constants of the sketch
\* ------------------------------------------------------------------------
Cells == 1..4

BASE_WIDTH == 270

BASE_LENGTH == 250

WING_PEG_DIST == 120

SMOOTHING_SAMPLES == 5

MAIN_MENU_ITEMS == 3

\* 4.71192
CORRECTION_FACTOR == RNorm(471192, 100000)

\* compiled-in calibration_factor1..4
DefaultFactors ==
  <<RNorm(-41197959, 100), RNorm(-23771598, 100),
    RNorm(-35098641, 100), RNorm(-53386225, 100)>>

\* resolution (1/FIX kg) at which a float weight is carried
FIX == 1000

Float(x) == IF IsFinite(x) THEN RNorm(RRound(RMul(x, R(FIX))), FIX) ELSE x

\* ------------------------------------------------------------------------
\* Bounds of the model
\* ------------------------------------------------------------------------
\* updateWeightData calls, tareScales calls, nested calls, calibration
\* sessions and cf,/c<n>, commands explored per behaviour
MaxCycles == 2

MaxTares == 1

MaxDepth == 3

MaxCal == 1

MaxSet == 1

\* cycles, tares, sessions and serial commands of one behaviour, together
MaxOps == 2

\* main-loop acquisition cycles explored when a window is filled
MaxRun == 5

\* raw counts the four amplifiers show for the loads put on the platform
Loads == { <<0, 0, 0, 0>>,
           <<-4000, -4000, -4000, -4000>> }

\* loads on the platform while a calibration session samples the cells
CalLoads == Loads \cup { <<-4000, -4000, 0, 0>> }

\* text that Serial.readStringUntil can hand to String::toFloat
ValueTokens == {"", "abc", "0", "-1", "0.5", "2.0"}

\* second character of a c<n>,<value> command
CellChars == {"0", "1", "2", "3", "4", "5", "f"}

\* ------------------------------------------------------------------------
\* State
\* ------------------------------------------------------------------------
VARIABLES
  calibration_factor,  \* calibration_factor1..4
  SCALE,               \* divisor held by each HX711 object (set_scale)
  OFFSET,              \* zero offset held by each HX711 object (tare)
  continuousMode,
  taraEffettuata,
  menuActive,
  menuPosition,
  weightSamples,       \* weight1Samples..weight4Samples
  sampleIndex,
  totalWeight,
  cogX,
  cogY,
  wingCogX,
  lateralCogDiff,
  cogPercentage,
  weight,              \* weight1..4 of the last updateWeightData
  smoothed,            \* what smoothValue returned for each cell
  stack,               \* live showMainMenu/tareScales/showCGView/... calls
  entry,               \* what loop() still has to do when the stack unwinds
  calState,            \* position inside calibrateCellsViaSerial
  prevMode,
  knownWeight,
  raw,                 \* raw1..raw4 captured so far
  measuredWeight,      \* measuredWeight1..4 of the verification
  measuredRaw,         \* history: counts behind measuredWeight1..4
  serialOut,           \* what the last step wrote to Serial ("" if nothing)
  recent,              \* history: last SMOOTHING_SAMPLES corrected weights
  tareCount,           \* history: tare() calls per cell since setup()
  nTares,              \* history: tareScales calls so far
  nCycles,             \* history: updateWeightData calls so far
  nCal,                \* history: calibration sessions started
  nSet,                \* history: cf,<value> and c<n>,<value> commands taken
  nCmd,                \* history: p, s, d and unknown commands taken
  input,               \* text the last step read from the serial port
  lim,                 \* bounds in force (see Limits)
  ready                \* whether each HX711 has a sample to deliver

scaleVars == <<calibration_factor, SCALE>>

measVars == <<totalWeight, cogX, cogY, wingCogX, lateralCogDiff,
              cogPercentage, weight, smoothed>>

winVars == <<weightSamples, recent>>

ctlVars == <<menuActive, menuPosition, stack, entry>>

calVars == <<calState, prevMode, knownWeight, raw, measuredWeight,
             measuredRaw>>

histVars == <<tareCount, nTares, nCycles, nCal, nSet, lim, ready>>

vars == <<nCmd, input, scaleVars, OFFSET, continuousMode, taraEffettuata, measVars,
          winVars, sampleIndex, ctlVars, calVars, serialOut,
          histVars>>

ZeroWindow == [j \in 1..SMOOTHING_SAMPLES |-> Zero]

Limits(c, t, d, k, n, o) ==
  [cycles |-> c, tares |-> t, depth |-> d, cal |-> k, set |-> n, ops |-> o]

InitState ==
  /\ calibration_factor = DefaultFactors
  /\ SCALE = DefaultFactors
  /\ OFFSET = <<0, 0, 0, 0>>
  /\ continuousMode = TRUE
  /\ taraEffettuata = TRUE
  /\ menuActive = FALSE
  /\ menuPosition = 0
  /\ weightSamples = [i \in Cells |-> ZeroWindow]
  /\ sampleIndex = 0
  /\ totalWeight = Zero
  /\ cogX = 0
  /\ cogY = 0
  /\ wingCogX = 0
  /\ lateralCogDiff = 0
  /\ cogPercentage = 0
  /\ weight = [i \in Cells |-> Zero]
  /\ smoothed = [i \in Cells |-> Zero]
  /\ stack = <<>>
  /\ entry = "none"
  /\ calState = "Idle"
  /\ prevMode = FALSE
  /\ knownWeight = Zero
  /\ raw = <<>>
  /\ measuredWeight = <<>>
  /\ measuredRaw = <<>>
  /\ serialOut = "System ready"
  /\ recent = [i \in Cells |-> ZeroWindow]
  /\ tareCount = [i \in Cells |-> 0]
  /\ nTares = 0
  /\ nCycles = 0
  /\ nCal = 0
  /\ nSet = 0
  /\ nCmd = 0
  /\ input = ""
  /\ ready = [i \in Cells |-> TRUE]

Init ==
  /\ InitState
  /\ lim = Limits(MaxCycles, MaxTares, MaxDepth, MaxCal, MaxSet, MaxOps)

\* ------------------------------------------------------------------------
\* HX711 channel: value = reading - OFFSET, units = value / SCALE
\* ------------------------------------------------------------------------
get_value(i, reading) == R(reading - OFFSET[i])

get_units(i, reading) == RDiv(get_value(i, reading), SCALE[i])

\* String::toFloat: the number the text starts with, 0 when there is none
toFloat(s) ==
  CASE s = "2.0" -> R(2)
    [] s = "0.5" -> RNorm(1, 2)
    [] s = "-1"  -> R(-1)
    [] s = "0"   -> Zero
    [] OTHER     -> Zero

\* ------------------------------------------------------------------------
\* Utilities of the sketch
\* ------------------------------------------------------------------------
\* int16_t = (long): keeps the low 16 bits
Wrap16(k) == ((k + 32768) % 65536) - 32768

\* what a float that no long can hold may become when it is cast
CastUB == {-32768, -1, 0, 32767}

\* round(weight * 100) / 100.0; the cast inside round() is undefined for
\* inf and NaN, which either pass through or come out as 0
roundWeightToDecagram(w) ==
  IF IsFinite(w) THEN {RNorm(RRound(RMul(w, R(100))), 100)}
  ELSE {w, Zero}

roundToMillimeter(value) ==
  IF IsFinite(value) THEN {Wrap16(RRound(value))} ELSE CastUB

\* a filter that averages only the slots written so far
smoothValue_filledOnly(newValue, samples, index) ==
  LET s == [samples EXCEPT ![index + 1] = newValue]
  IN  [samples |-> s,
       result  |-> RDiv(RSum(s, SMOOTHING_SAMPLES), R(index + 1))]

\* samples[index] = newValue; return the mean of all slots
smoothValue(newValue, samples, index) ==
  LET s == [samples EXCEPT ![index + 1] = newValue]
  IN  [samples |-> s,
       result  |-> RDiv(RSum(s, SMOOTHING_SAMPLES), R(SMOOTHING_SAMPLES))]

\* X and Y of the four cells
CellX == <<RNorm(-BASE_WIDTH, 2), RNorm(BASE_WIDTH, 2),
           RNorm(-BASE_WIDTH, 2), RNorm(BASE_WIDTH, 2)>>

\* a frame whose left rear cell sits on the front line
CellY_oneRear == <<Zero, Zero, Zero, R(BASE_LENGTH)>>

CellY == <<Zero, Zero, R(BASE_LENGTH), R(BASE_LENGTH)>>

\* a moment sum carrying a fixed 1 kg*mm bias
Moment_biased(w, pos) ==
  RAdd(RAdd(RAdd(RAdd(RMul(w[1], pos[1]), RMul(w[2], pos[2])),
                 RMul(w[3], pos[3])), RMul(w[4], pos[4])), R(1))

Moment(w, pos) ==
  RAdd(RAdd(RAdd(RMul(w[1], pos[1]), RMul(w[2], pos[2])),
            RMul(w[3], pos[3])), RMul(w[4], pos[4]))

Shift(h, v) == Append(Tail(h), v)

\* a CoG computation whose low-weight branch leaves the fields as they were
computeCoG_keep(w, total) ==
  IF RGt(total, RNorm(1, 100))
  THEN /\ lateralCogDiff' \in
            roundToMillimeter(RDiv(Moment(w, CellX), total))
       /\ cogY' \in roundToMillimeter(RDiv(Moment(w, CellY), total))
       /\ wingCogX' = cogY'
       /\ cogPercentage' =
            IF WING_PEG_DIST > 0
            THEN Wrap16(RRound(RNorm(wingCogX' * 100, WING_PEG_DIST)))
            ELSE cogPercentage
       /\ cogX' = cogX
  ELSE UNCHANGED <<cogX, cogY, wingCogX, lateralCogDiff, cogPercentage>>

\* updateWeightData, "Calcola il baricentro solo se c'e' peso sufficiente":
\* the CoG fields from the four rounded weights and their total
computeCoG(w, total) ==
  IF RGt(total, RNorm(1, 100))
  THEN /\ lateralCogDiff' \in
            roundToMillimeter(RDiv(Moment(w, CellX), total))
       /\ cogY' \in roundToMillimeter(RDiv(Moment(w, CellY), total))
       /\ wingCogX' = cogY'
       /\ cogPercentage' =
            IF WING_PEG_DIST > 0
            THEN Wrap16(RRound(RNorm(wingCogX' * 100, WING_PEG_DIST)))
            ELSE cogPercentage
       /\ cogX' = cogX
  ELSE /\ cogX' = 0
       /\ cogY' = 0
       /\ wingCogX' = 0
       /\ lateralCogDiff' = 0
       /\ cogPercentage' = 0

\* updateWeightData with the four amplifiers showing the counts p
updateWeightData(p) ==
  LET rawWeight == [i \in Cells |-> get_units(i, p[i])]
      corrected == [i \in Cells |->
                      Float(RMul(rawWeight[i], CORRECTION_FACTOR))]
      sm == [i \in Cells |->
               smoothValue(corrected[i], weightSamples[i], sampleIndex)]
  IN
  /\ weightSamples' = [i \in Cells |-> sm[i].samples]
  /\ smoothed' = [i \in Cells |-> sm[i].result]
  /\ recent' = [i \in Cells |-> Shift(recent[i], corrected[i])]
  /\ nCycles' = nCycles + 1
  /\ \E w1 \in roundWeightToDecagram(sm[1].result),
        w2 \in roundWeightToDecagram(sm[2].result),
        w3 \in roundWeightToDecagram(sm[3].result),
        w4 \in roundWeightToDecagram(sm[4].result) :
       /\ weight' = <<w1, w2, w3, w4>>
       /\ totalWeight' = RAdd(RAdd(RAdd(w1, w2), w3), w4)
       /\ computeCoG(weight', totalWeight')

\* a control loop that goes on taking commands during a calibration session
AtLoop_anyState == stack = <<>>

AtLoop == stack = <<>> /\ calState = "Idle"

\* the behaviour may still run one more bounded operation
OpsLeft == nCycles + nTares + nCal + nSet + nCmd < lim.ops

\* HX711::get_units hands back a value once the amplifier has a sample
AllReady == \A i \in Cells : ready[i]

\* loop(): the read interval has elapsed in continuous mode
LoopAcquire ==
  /\ input' = ""
  /\ UNCHANGED nCmd
  /\ AtLoop
  /\ AllReady
  /\ continuousMode
  /\ nCycles < lim.cycles /\ OpsLeft
  /\ \E p \in Loads : updateWeightData(p)
  /\ serialOut' = "MEASUREMENT REPORT"
  /\ sampleIndex' = (sampleIndex + 1) % SMOOTHING_SAMPLES
  /\ UNCHANGED <<scaleVars, OFFSET, continuousMode, taraEffettuata,
                 ctlVars, calVars, tareCount, nTares, nCal, nSet, lim, ready>>

Top == IF stack = <<>> THEN "loop" ELSE stack[Len(stack)]

Pop(st) == SubSeq(st, 1, Len(st) - 1)

\* a tare that leaves the smoothing window of cell 4 as it was
tareScales_keepWindow4(p, st) ==
  /\ nTares < lim.tares /\ OpsLeft
  /\ Len(st) < lim.depth
  /\ OFFSET' = [i \in Cells |-> p[i]]
  /\ tareCount' = [i \in Cells |-> tareCount[i] + 1]
  /\ nTares' = nTares + 1
  /\ weightSamples' = [i \in Cells |->
                         IF i = 4 THEN weightSamples[i] ELSE ZeroWindow]
  /\ recent' = [i \in Cells |-> ZeroWindow]
  /\ taraEffettuata' = TRUE
  /\ stack' = Append(st, "tareWait")

\* tareScales up to its wait for K4: tare the four cells, clear the
\* smoothing windows, show TARE DONE; st is the call stack it was called on
tareScales(p, st) ==
  /\ nTares < lim.tares /\ OpsLeft
  /\ Len(st) < lim.depth
  /\ OFFSET' = [i \in Cells |-> p[i]]
  /\ tareCount' = [i \in Cells |-> tareCount[i] + 1]
  /\ nTares' = nTares + 1
  /\ weightSamples' = [i \in Cells |-> ZeroWindow]
  /\ recent' = [i \in Cells |-> ZeroWindow]
  /\ taraEffettuata' = TRUE
  /\ stack' = Append(st, "tareWait")

\* checkSerialCommands, 'z'
SerialTare ==
  /\ input' = "z"
  /\ UNCHANGED nCmd
  /\ AtLoop
  /\ \E p \in Loads : tareScales(p, stack)
  /\ serialOut' = "Starting tare process..."
  /\ entry' = "serial_z"
  /\ UNCHANGED <<scaleVars, continuousMode, measVars, sampleIndex,
                 menuActive, menuPosition, calVars, nCycles, nCal, nSet, lim, ready>>

\* checkButtons with K1 and/or K4 held
checkButtons(k1, k4) ==
  /\ input' = ""
  /\ UNCHANGED nCmd
  /\ AtLoop
  /\ k1 \/ k4
  /\ serialOut' = ""
  /\ IF k1
     THEN /\ Len(stack) < lim.depth
          /\ menuActive' = TRUE
          /\ menuPosition' = 0
          /\ stack' = Append(stack, "menu")
          /\ entry' = IF k4 THEN "buttons_k1k4" ELSE "none"
          /\ UNCHANGED <<OFFSET, taraEffettuata, winVars, tareCount, nTares>>
     ELSE IF ~menuActive
          THEN /\ \E p \in Loads : tareScales(p, stack)
               /\ entry' = "buttons_k4"
               /\ UNCHANGED <<menuActive, menuPosition>>
          ELSE /\ menuActive' = FALSE
               /\ UNCHANGED <<menuPosition, stack, entry, OFFSET,
                              taraEffettuata, winVars, tareCount, nTares>>
  /\ UNCHANGED <<scaleVars, continuousMode, measVars, sampleIndex, calVars,
                 nCycles, nCal, nSet, lim, ready>>

ButtonMenu == checkButtons(TRUE, FALSE)

ButtonTare == checkButtons(FALSE, TRUE)

ButtonBoth == checkButtons(TRUE, TRUE)

\* checkSerialCommands, 'm'
SerialMenu ==
  /\ input' = "m"
  /\ UNCHANGED nCmd
  /\ AtLoop
  /\ Len(stack) < lim.depth
  /\ serialOut' = "Showing main menu via serial command"
  /\ menuActive' = TRUE
  /\ menuPosition' = 0
  /\ stack' = Append(stack, "menu")
  /\ entry' = "none"
  /\ UNCHANGED <<scaleVars, OFFSET, continuousMode, taraEffettuata,
                 measVars, winVars, sampleIndex, calVars, histVars>>

\* a wait loop that returns to the caller of tareScales on K4
TareWaitK4_returns ==
  /\ input' = ""
  /\ UNCHANGED nCmd
  /\ Top = "tareWait"
  /\ stack' = Pop(stack)
  /\ serialOut' = ""
  /\ UNCHANGED <<scaleVars, OFFSET, continuousMode, taraEffettuata,
                 measVars, winVars, sampleIndex, menuActive, menuPosition,
                 entry, calVars, histVars>>

\* a wait loop that goes back on K4 to the menu tareScales was chosen in
TareWaitK4_reuse ==
  /\ input' = ""
  /\ UNCHANGED nCmd
  /\ Top = "tareWait"
  /\ menuActive' = TRUE
  /\ menuPosition' = 0
  /\ stack' = IF Len(stack) > 1 THEN Pop(stack) ELSE Append(stack, "menu")
  /\ serialOut' = ""
  /\ UNCHANGED <<scaleVars, OFFSET, continuousMode, taraEffettuata,
                 measVars, winVars, sampleIndex, entry, calVars, histVars>>

\* tareScales: K4 seen in the wait loop opens the main menu
TareWaitK4 ==
  /\ input' = ""
  /\ UNCHANGED nCmd
  /\ Top = "tareWait"
  /\ Len(stack) < lim.depth
  /\ menuActive' = TRUE
  /\ menuPosition' = 0
  /\ stack' = Append(stack, "menu")
  /\ serialOut' = ""
  /\ UNCHANGED <<scaleVars, OFFSET, continuousMode, taraEffettuata,
                 measVars, winVars, sampleIndex, entry, calVars, histVars>>

\* showMainMenu, K2 / K3
MenuMove ==
  /\ input' = ""
  /\ UNCHANGED nCmd
  /\ Top = "menu"
  /\ \E up \in BOOLEAN :
       menuPosition' =
         IF up THEN (IF menuPosition > 0 THEN menuPosition - 1
                     ELSE MAIN_MENU_ITEMS - 1)
         ELSE (menuPosition + 1) % MAIN_MENU_ITEMS
  /\ serialOut' = ""
  /\ UNCHANGED <<scaleVars, OFFSET, continuousMode, taraEffettuata,
                 measVars, winVars, sampleIndex, menuActive, stack, entry,
                 calVars, histVars>>

\* showMainMenu, K1 on "Scale Tare"
MenuSelectTare ==
  /\ input' = ""
  /\ UNCHANGED nCmd
  /\ Top = "menu"
  /\ menuPosition = 0
  /\ \E p \in Loads : tareScales(p, stack)
  /\ serialOut' = ""
  /\ UNCHANGED <<scaleVars, continuousMode, measVars, sampleIndex,
                 menuActive, menuPosition, entry, calVars, nCycles, nCal, nSet, lim, ready>>

\* showMainMenu, K1 on "CG View" / "Lateral Balance": the screen is drawn
\* and the first pass of its wait loop refreshes the data at once
\* (updateTimer starts at 0)
MenuSelectView ==
  /\ input' = ""
  /\ UNCHANGED nCmd
  /\ Top = "menu"
  /\ menuPosition \in {1, 2}
  /\ Len(stack) < lim.depth
  /\ nCycles < lim.cycles /\ OpsLeft
  /\ stack' = Append(stack, IF menuPosition = 1 THEN "cgview" ELSE "lateral")
  /\ \E p \in Loads : updateWeightData(p)
  /\ serialOut' = "Corrected Weights"
  /\ UNCHANGED <<scaleVars, OFFSET, continuousMode, taraEffettuata,
                 sampleIndex, menuActive, menuPosition, entry, calVars,
                 tareCount, nTares, nCal, nSet, lim, ready>>

\* showCGView / showLateralBalance: the 500 ms refresh of the wait loop
ViewUpdate ==
  /\ input' = ""
  /\ UNCHANGED nCmd
  /\ Top \in {"cgview", "lateral"}
  /\ nCycles < lim.cycles /\ OpsLeft
  /\ \E p \in Loads : updateWeightData(p)
  /\ serialOut' = "Corrected Weights"
  /\ UNCHANGED <<scaleVars, OFFSET, continuousMode, taraEffettuata,
                 sampleIndex, ctlVars, calVars, tareCount, nTares, nCal, nSet, lim, ready>>

\* showCGView / showLateralBalance: K4 returns to the menu loop
ViewBack ==
  /\ input' = ""
  /\ UNCHANGED nCmd
  /\ Top \in {"cgview", "lateral"}
  /\ stack' = Pop(stack)
  /\ serialOut' = ""
  /\ UNCHANGED <<scaleVars, OFFSET, continuousMode, taraEffettuata,
                 measVars, winVars, sampleIndex, menuActive, menuPosition,
                 entry, calVars, histVars>>

\* a menu that returns on K4 without clearing menuActive
MenuExit_staysActive ==
  /\ input' = ""
  /\ UNCHANGED nCmd
  /\ Top = "menu"
  /\ menuActive' = menuActive
  /\ LET s1 == Pop(stack)
         s2 == IF s1 # <<>> /\ s1[Len(s1)] = "tareWait" THEN Pop(s1) ELSE s1
     IN
     /\ serialOut' = IF s2 = <<>> /\ entry = "serial_z"
                     THEN "Tare completed" ELSE ""
     /\ IF s2 # <<>>
        THEN /\ stack' = s2
             /\ UNCHANGED <<entry, OFFSET, taraEffettuata, winVars,
                            tareCount, nTares>>
        ELSE IF entry = "buttons_k1k4"
        THEN /\ \E p \in Loads : tareScales(p, s2)
             /\ entry' = "buttons_k4"
        ELSE /\ stack' = s2
             /\ entry' = "none"
             /\ UNCHANGED <<OFFSET, taraEffettuata, winVars, tareCount,
                            nTares>>
  /\ UNCHANGED <<scaleVars, continuousMode, measVars, sampleIndex,
                 menuPosition, calVars, nCycles, nCal, nSet, lim, ready>>

\* showMainMenu, K4: menuActive = false and return.  A caller that is
\* tareScales returns too (waitForK4 is false); back in loop() the rest of
\* checkSerialCommands / checkButtons runs.
MenuExit ==
  /\ input' = ""
  /\ UNCHANGED nCmd
  /\ Top = "menu"
  /\ menuActive' = FALSE
  /\ LET s1 == Pop(stack)
         s2 == IF s1 # <<>> /\ s1[Len(s1)] = "tareWait" THEN Pop(s1) ELSE s1
     IN
     /\ serialOut' = IF s2 = <<>> /\ entry = "serial_z"
                     THEN "Tare completed" ELSE ""
     /\ IF s2 # <<>>
        THEN /\ stack' = s2
             /\ UNCHANGED <<entry, OFFSET, taraEffettuata, winVars,
                            tareCount, nTares>>
        ELSE IF entry = "buttons_k1k4"
        THEN /\ \E p \in Loads : tareScales(p, s2)
             /\ entry' = "buttons_k4"
        ELSE /\ stack' = s2
             /\ entry' = "none"
             /\ UNCHANGED <<OFFSET, taraEffettuata, winVars, tareCount,
                            nTares>>
  /\ UNCHANGED <<scaleVars, continuousMode, measVars, sampleIndex,
                 menuPosition, calVars, nCycles, nCal, nSet, lim, ready>>

\* ------------------------------------------------------------------------
\* calibrateCellsViaSerial
\* ------------------------------------------------------------------------
\* checkSerialCommands, 'c': the session starts and waits for 't'
SerialCalibrate ==
  /\ input' = "c"
  /\ UNCHANGED nCmd
  /\ AtLoop
  /\ nCal < lim.cal /\ OpsLeft
  /\ nCal' = nCal + 1
  /\ prevMode' = continuousMode
  /\ continuousMode' = FALSE
  /\ calState' = "AwaitingTare"
  /\ serialOut' = "Send 't' to tare cells"
  /\ UNCHANGED <<scaleVars, OFFSET, taraEffettuata, measVars, winVars,
                 sampleIndex, ctlVars, knownWeight, raw, measuredWeight,
                 measuredRaw, tareCount, nTares, nCycles, nSet, lim, ready>>

\* a session tare that forgets cell 4
tareAll_skip4(p) ==
  /\ OFFSET' = [i \in Cells |-> IF i = 4 THEN OFFSET[i] ELSE p[i]]
  /\ tareCount' = [i \in Cells |->
                     IF i = 4 THEN tareCount[i] ELSE tareCount[i] + 1]

\* scale1.tare() .. scale4.tare() with the amplifiers showing the counts p
tareAll(p) ==
  /\ OFFSET' = [i \in Cells |-> p[i]]
  /\ tareCount' = [i \in Cells |-> tareCount[i] + 1]

\* one character read while waiting for 't'; anything else is dropped
CalAwaitTare ==
  /\ UNCHANGED nCmd
  /\ calState = "AwaitingTare"
  /\ \E cmd \in {"t", "c", "z", "1"} :
       /\ input' = cmd
       /\ IF cmd = "t"
          THEN /\ \E p \in Loads : tareAll(p)
               /\ serialOut' = "Enter weight in kg"
               /\ calState' = "AwaitingKnownWeight"
          ELSE UNCHANGED <<OFFSET, tareCount, serialOut, calState>>
  /\ UNCHANGED <<scaleVars, continuousMode, taraEffettuata, measVars,
                 winVars, sampleIndex, ctlVars, prevMode, knownWeight, raw,
                 measuredWeight, measuredRaw, nTares, nCycles, nCal, nSet,
                 lim, ready>>

\* a check that lets negative weights through
acceptWeight_nonZero(kw) == IsFinite(kw) /\ kw # Zero

\* if (knownWeight > 0)
acceptWeight(kw) == RGt(kw, Zero)

\* one line read while waiting for the known weight
CalKnownWeight ==
  /\ UNCHANGED nCmd
  /\ calState = "AwaitingKnownWeight"
  /\ \E line \in ValueTokens :
       /\ input' = line
       /\ knownWeight' = toFloat(line)
       /\ IF acceptWeight(knownWeight')
          THEN /\ serialOut' = "Weight entered"
               /\ calState' = "Sampling"
          ELSE /\ serialOut' = "Invalid weight. Try again"
               /\ UNCHANGED calState
  /\ UNCHANGED <<scaleVars, OFFSET, continuousMode, taraEffettuata,
                 measVars, winVars, sampleIndex, ctlVars, prevMode, raw,
                 measuredWeight, measuredRaw, histVars>>

\* raw1..raw4 = get_value(10) of the four cells
CalSampling ==
  /\ input' = ""
  /\ UNCHANGED nCmd
  /\ calState = "Sampling"
  /\ \E p \in CalLoads : raw' = [i \in Cells |-> get_value(i, p[i])]
  /\ serialOut' = "Cell 4 raw value"
  /\ calState' = "Computing"
  /\ UNCHANGED <<scaleVars, OFFSET, continuousMode, taraEffettuata,
                 measVars, winVars, sampleIndex, ctlVars, prevMode,
                 knownWeight, measuredWeight, measuredRaw,
                 histVars>>

\* a proportion that is not scaled by the number of cells
NewFactor_unscaled(rawI, rawSum, kw) == RMul(RDiv(rawI, rawSum), kw)

\* calibration_factor<i> = (raw<i> / rawSum) * knownWeight * 4.0
NewFactor(rawI, rawSum, kw) == RMul(RMul(RDiv(rawI, rawSum), kw), R(4))

\* the four factors are computed and handed to set_scale
CalComputing ==
  /\ input' = ""
  /\ UNCHANGED nCmd
  /\ calState = "Computing"
  /\ LET rawSum == RAdd(RAdd(RAdd(raw[1], raw[2]), raw[3]), raw[4])
     IN  calibration_factor' =
           [i \in Cells |-> NewFactor(raw[i], rawSum, knownWeight)]
  /\ SCALE' = calibration_factor'
  /\ serialOut' = "New calibration factors"
  /\ calState' = "Verifying"
  /\ UNCHANGED <<OFFSET, continuousMode, taraEffettuata, measVars, winVars,
                 sampleIndex, ctlVars, prevMode, knownWeight, raw,
                 measuredWeight, measuredRaw, histVars>>

\* a session end that always switches continuous reading on
restoreMode_on == continuousMode' = TRUE

\* continuousMode = prevMode
restoreMode == continuousMode' = prevMode

\* measuredWeight<i> = get_units(5); the previous mode is restored and the
\* CALIBRATION DONE screen is shown
CalVerifying ==
  /\ input' = ""
  /\ UNCHANGED nCmd
  /\ calState = "Verifying"
  /\ \E p \in CalLoads :
       /\ measuredRaw' = [i \in Cells |-> get_value(i, p[i])]
       /\ measuredWeight' = [i \in Cells |-> get_units(i, p[i])]
  /\ serialOut' = "Measured weights after calibration"
  /\ restoreMode
  /\ calState' = "Done"
  /\ UNCHANGED <<scaleVars, OFFSET, taraEffettuata, measVars, winVars,
                 sampleIndex, ctlVars, prevMode, knownWeight, raw, histVars>>

\* calibrateCellsViaSerial returns to checkSerialCommands
CalReturn ==
  /\ input' = ""
  /\ UNCHANGED nCmd
  /\ calState = "Done"
  /\ calState' = "Idle"
  /\ prevMode' = FALSE
  /\ knownWeight' = Zero
  /\ raw' = <<>>
  /\ measuredWeight' = <<>>
  /\ measuredRaw' = <<>>
  /\ serialOut' = "Calibration completed and ready for use"
  /\ UNCHANGED <<scaleVars, OFFSET, continuousMode, taraEffettuata,
                 measVars, winVars, sampleIndex, ctlVars, histVars>>

\* ------------------------------------------------------------------------
\* Remaining serial commands
\* ------------------------------------------------------------------------
\* 'p': toggleContinuousMode
toggleContinuousMode ==
  /\ input' = "p"
  /\ AtLoop
  /\ OpsLeft
  /\ nCmd' = nCmd + 1
  /\ continuousMode' = ~continuousMode
  /\ serialOut' = IF continuousMode' THEN "Continuous reading on"
                  ELSE "Reading paused"
  /\ UNCHANGED <<scaleVars, OFFSET, taraEffettuata, measVars, winVars,
                 sampleIndex, ctlVars, calVars, histVars>>

\* a listing that puts the factors of the sketch back on the channels
showCalibrationFactors_reset ==
  /\ input' = "s"
  /\ AtLoop
  /\ OpsLeft
  /\ nCmd' = nCmd + 1
  /\ serialOut' = "CURRENT CALIBRATION FACTORS"
  /\ calibration_factor' = DefaultFactors
  /\ SCALE' = DefaultFactors
  /\ UNCHANGED <<OFFSET, continuousMode, taraEffettuata,
                 measVars, winVars, sampleIndex, ctlVars, calVars, histVars>>

\* 's': showCalibrationFactors
showCalibrationFactors ==
  /\ input' = "s"
  /\ AtLoop
  /\ OpsLeft
  /\ nCmd' = nCmd + 1
  /\ serialOut' = "CURRENT CALIBRATION FACTORS"
  /\ UNCHANGED <<scaleVars, OFFSET, continuousMode, taraEffettuata,
                 measVars, winVars, sampleIndex, ctlVars, calVars, histVars>>

\* 'd' prints the raw readings and the pins; any other single character
\* is not recognized
SerialOther ==
  /\ AtLoop
  /\ OpsLeft
  /\ nCmd' = nCmd + 1
  /\ \E cmd \in {"d", "x"} :
       /\ input' = cmd
       /\ serialOut' = IF cmd = "d" THEN "Debug mode - Raw values"
                       ELSE "Command not recognized"
  /\ UNCHANGED <<scaleVars, OFFSET, continuousMode, taraEffettuata,
                 measVars, winVars, sampleIndex, ctlVars, calVars,
                 histVars>>

\* input.charAt(1) - '0'
CellNumber(ch) ==
  CASE ch = "0" -> 0
    [] ch = "1" -> 1
    [] ch = "2" -> 2
    [] ch = "3" -> 3
    [] ch = "4" -> 4
    [] ch = "5" -> 5
    [] OTHER    -> 54

\* a switch that stores the factor without handing it to the channel
setCell_notApplied(cellNumber, value) ==
  /\ calibration_factor' = [calibration_factor EXCEPT ![cellNumber] = value]
  /\ SCALE' = SCALE

\* switch (cellNumber): calibration_factor<n> = value; scale<n>.set_scale
setCell(cellNumber, value) ==
  /\ calibration_factor' = [calibration_factor EXCEPT ![cellNumber] = value]
  /\ SCALE' = [SCALE EXCEPT ![cellNumber] = calibration_factor'[cellNumber]]

\* a check that lets every value through
validValue_any(value) == TRUE

\* if (value != 0)
validValue(value) == value # Zero

\* a line "c" ch "," v: cf,<value> when ch is 'f' and the line is longer
\* than 3 characters, otherwise c<n>,<value>
SerialComma ==
  /\ AtLoop
  /\ nSet < lim.set /\ OpsLeft
  /\ nSet' = nSet + 1
  /\ UNCHANGED nCmd
  /\ \E ch \in CellChars, v \in ValueTokens :
       LET value == toFloat(v)
           cellNumber == CellNumber(ch)
       IN
       /\ input' = "c" \o ch \o "," \o v
       /\ IF ch = "f" /\ v # ""
          THEN /\ serialOut' = IF RGt(value, Zero)
                               THEN "New correction factor set"
                               ELSE "Invalid correction factor (must be > 0)"
               /\ UNCHANGED scaleVars
          ELSE IF cellNumber >= 1 /\ cellNumber <= 4
          THEN IF validValue(value)
               THEN /\ setCell(cellNumber, value)
                    /\ serialOut' = "Calibration factor for cell set"
               ELSE /\ serialOut' = "Invalid calibration value"
                    /\ UNCHANGED scaleVars
          ELSE /\ serialOut' = "Invalid cell number (must be 1-4)"
               /\ UNCHANGED scaleVars
  /\ UNCHANGED <<OFFSET, continuousMode, taraEffettuata, measVars, winVars,
                 sampleIndex, ctlVars, calVars, tareCount, nTares,
                 nCycles, nCal, lim, ready>>

Next ==
  \/ LoopAcquire
  \/ SerialTare
  \/ ButtonMenu
  \/ ButtonTare
  \/ ButtonBoth
  \/ SerialMenu
  \/ TareWaitK4
  \/ MenuMove
  \/ MenuSelectTare
  \/ MenuSelectView
  \/ ViewUpdate
  \/ ViewBack
  \/ MenuExit
  \/ SerialCalibrate
  \/ CalAwaitTare
  \/ CalKnownWeight
  \/ CalSampling
  \/ CalComputing
  \/ CalVerifying
  \/ CalReturn
  \/ toggleContinuousMode
  \/ showCalibrationFactors
  \/ SerialOther
  \/ SerialComma

Spec == Init /\ [][Next]_vars

\* the main loop filling the smoothing windows, with tares in between
InitSmooth ==
  /\ InitState
  /\ lim = Limits(MaxRun, MaxTares, MaxDepth, 0, 0, MaxRun + MaxTares)

NextSmooth ==
  \/ LoopAcquire
  \/ SerialTare
  \/ ButtonTare
  \/ TareWaitK4
  \/ MenuExit
  \/ toggleContinuousMode

SpecSmooth == InitSmooth /\ [][NextSmooth]_vars

\* ------------------------------------------------------------------------
\* The CoG computation of updateWeightData on chosen rounded weights, and
\* again on the same weights multiplied by a positive constant

\* rounded weights in units of 0.01 kg
ProbeCentis == {-299, -1, 0, 1, 2, 50, 300}

\* positive constants <<numerator, denominator>>
ProbeScales == {<<1, 2>>, <<2, 1>>, <<3, 1>>}

MaxScale == 3

ProbeWeights == [Cells -> {RNorm(c, 100) : c \in ProbeCentis}]

\* lines 315 and 336-393 applied to the weights w
CoGOf(w) ==
  /\ weight' = w
  /\ totalWeight' = RAdd(RAdd(RAdd(w[1], w[2]), w[3]), w[4])
  /\ computeCoG(weight', totalWeight')
  /\ UNCHANGED <<nCmd, input, scaleVars, OFFSET, continuousMode,
                 taraEffettuata, smoothed, winVars, sampleIndex, ctlVars,
                 calVars, serialOut, tareCount, nTares, nCal, nSet, lim, ready>>

CoGOfWeights ==
  /\ nCycles = 0
  /\ nCycles' = 1
  /\ \E w \in ProbeWeights : CoGOf(w)

CoGOfScaled ==
  /\ nCycles = 1
  /\ nCycles' = 2
  /\ \E k \in ProbeScales :
       CoGOf([i \in Cells |-> RMul(RNorm(k[1], k[2]), weight[i])])

InitCoG ==
  /\ InitState
  /\ lim = Limits(0, 0, 0, 0, 0, 0)

NextCoG ==
  \/ CoGOfWeights
  \/ CoGOfScaled

SpecCoG == InitCoG /\ [][NextCoG]_vars

\* ------------------------------------------------------------------------
\* The acquisition cycle of loop() with amplifiers that stop and resume
\* delivering samples

\* loop() enters updateWeightData while an amplifier has no sample: the
\* get_units call waits inside the library
LoopBlocked ==
  /\ AtLoop
  /\ continuousMode
  /\ ~AllReady
  /\ nCycles < lim.cycles /\ OpsLeft
  /\ stack' = <<"read">>
  /\ input' = ""
  /\ serialOut' = ""
  /\ UNCHANGED <<nCmd, scaleVars, OFFSET, continuousMode, taraEffettuata,
                 measVars, winVars, sampleIndex, menuActive, menuPosition,
                 entry, calVars, histVars>>

\* every amplifier has a sample: the waiting get_units calls return
ReadReturns ==
  /\ stack = <<"read">>
  /\ AllReady
  /\ stack' = <<"cycle">>
  /\ input' = ""
  /\ serialOut' = ""
  /\ UNCHANGED <<nCmd, scaleVars, OFFSET, continuousMode, taraEffettuata,
                 measVars, winVars, sampleIndex, menuActive, menuPosition,
                 entry, calVars, histVars>>

\* the cycle runs to its end with the values the reads returned
ReadResume ==
  /\ stack = <<"cycle">>
  /\ \E p \in Loads : updateWeightData(p)
  /\ serialOut' = "MEASUREMENT REPORT"
  /\ sampleIndex' = (sampleIndex + 1) % SMOOTHING_SAMPLES
  /\ stack' = <<>>
  /\ input' = ""
  /\ UNCHANGED <<nCmd, scaleVars, OFFSET, continuousMode, taraEffettuata,
                 menuActive, menuPosition, entry, calVars, tareCount,
                 nTares, nCal, nSet, lim, ready>>

\* an amplifier stops delivering samples (unplugged, unpowered)
SensorStalls ==
  /\ \E i \in Cells : ready[i] /\ ready' = [ready EXCEPT ![i] = FALSE]
  /\ UNCHANGED <<nCmd, input, scaleVars, OFFSET, continuousMode,
                 taraEffettuata, measVars, winVars, sampleIndex, ctlVars,
                 calVars, serialOut, tareCount, nTares, nCycles, nCal, nSet,
                 lim>>

\* an amplifier delivers samples again
SensorRecovers ==
  /\ \E i \in Cells : ~ready[i] /\ ready' = [ready EXCEPT ![i] = TRUE]
  /\ UNCHANGED <<nCmd, input, scaleVars, OFFSET, continuousMode,
                 taraEffettuata, measVars, winVars, sampleIndex, ctlVars,
                 calVars, serialOut, tareCount, nTares, nCycles, nCal, nSet,
                 lim>>

InitSensor ==
  /\ InitState
  /\ lim = Limits(MaxCycles, 0, MaxDepth, 0, 0, MaxCycles)

NextSensor ==
  \/ LoopAcquire
  \/ LoopBlocked
  \/ ReadReturns
  \/ ReadResume
  \/ SensorStalls
  \/ SensorRecovers

\* the sketch keeps running; nothing obliges an amplifier to recover
SpecSensor ==
  /\ InitSensor
  /\ [][NextSensor]_vars
  /\ WF_vars(ReadReturns)

\* ------------------------------------------------------------------------
\* The main menu and its Scale Tare item, chosen again and again

\* tares chosen from the menu in one behaviour
MaxNest == 3

InitNest ==
  /\ InitState
  /\ lim = Limits(0, MaxNest, 2 * MaxNest + 1, 0, 0, MaxNest)

NextNest ==
  \/ ButtonMenu
  \/ SerialMenu
  \/ SerialTare
  \/ MenuMove
  \/ MenuSelectTare
  \/ TareWaitK4
  \/ MenuExit

SpecNest == InitNest /\ [][NextNest]_vars

\* ------------------------------------------------------------------------
\* Properties

AtOrBelowThreshold(t) == ~IsNaN(t) /\ ~RGt(t, RNorm(1, 100))

\* sum of the four raw samples of the running calibration session
SumOfRaw ==
  IF DOMAIN raw = Cells
  THEN RAdd(RAdd(RAdd(raw[1], raw[2]), raw[3]), raw[4])
  ELSE Zero

Count(h, v) == Cardinality({j \in 1..SMOOTHING_SAMPLES : h[j] = v})

\* h is zero except for its last k entries, which all hold the same value
IsRun(h, k) ==
  /\ \A j \in 1..(SMOOTHING_SAMPLES - k) : h[j] = Zero
  /\ \A j \in (SMOOTHING_SAMPLES - k + 1)..SMOOTHING_SAMPLES :
       h[j] = h[SMOOTHING_SAMPLES]

\* C1: whenever the total weight is at or below 0.01 kg, the lateral offset,
\* the longitudinal CoG, the wing CoG and the CoG percentage are all zero
C1_LowWeightZeroesCoG ==
  AtOrBelowThreshold(totalWeight) =>
    /\ lateralCogDiff = 0
    /\ cogY = 0
    /\ wingCogX = 0
    /\ cogPercentage = 0

\* a second cycle found no weight where the cycle before it had found some
C1_Witness ==
  /\ nCycles >= 2
  /\ AtOrBelowThreshold(totalWeight)
  /\ recent[2][SMOOTHING_SAMPLES - 1] # Zero
  /\ recent[2][SMOOTHING_SAMPLES] = Zero

\* C2: when the four raw samples of a session sum to zero, the session is
\* abandoned and the four scale factors keep the values they had
C2_ZeroSumAborts ==
  [][(calState = "Computing" /\ SumOfRaw = Zero) =>
       /\ calibration_factor' = calibration_factor
       /\ SCALE' = SCALE
       /\ calState' # "Verifying"]_vars

\* C3: no channel's scale factor is ever zero
C3_FactorsNonZero ==
  \A i \in Cells : SCALE[i] # Zero /\ calibration_factor[i] # Zero

CalOrder ==
  { <<"Idle", "AwaitingTare">>,
    <<"AwaitingTare", "AwaitingKnownWeight">>,
    <<"AwaitingKnownWeight", "Sampling">>,
    <<"Sampling", "Computing">>,
    <<"Computing", "Verifying">>,
    <<"Verifying", "Done">>,
    <<"Done", "Idle">> }

\* C4: a calibration session moves through its states in the one fixed
\* order: the four cells are tared before a weight is accepted, raw samples
\* are taken only with a positive weight stored, factors are written only
\* with four raw samples taken, and the verification reads use the factors
\* already applied
C4_SessionOrder ==
  [][/\ calState' # calState => <<calState, calState'>> \in CalOrder
     /\ (calState = "AwaitingTare" /\ calState' = "AwaitingKnownWeight") =>
          \A i \in Cells : tareCount'[i] = tareCount[i] + 1
     /\ (raw' # raw /\ raw' # <<>>) =>
          calState = "Sampling" /\ RGt(knownWeight, Zero)
     /\ (calState # "Idle" /\ scaleVars' # scaleVars) =>
          calState = "Computing" /\ DOMAIN raw = Cells
     /\ (measuredWeight' # measuredWeight /\ measuredWeight' # <<>>) =>
          /\ calState = "Verifying"
          /\ DOMAIN raw = Cells
          /\ SCALE = calibration_factor]_vars

\* a session has run to its end
C4_Witness ==
  /\ calState = "Done"
  /\ DOMAIN measuredWeight = Cells
  /\ \A i \in Cells : tareCount[i] >= 1

\* inputs that are empty, not a number, zero or negative
InvalidTokens == {"", "abc", "0", "-1"}

C6_FactorFormula ==
  (calState \in {"Verifying", "Done"} /\ SumOfRaw # Zero) =>
    \A i \in Cells :
      /\ calibration_factor[i] =
           RNorm(raw[i][1] * knownWeight[1] * 4,
                 SumOfRaw[1] * knownWeight[2])
      /\ SCALE[i] = calibration_factor[i]

\* factors were computed from unequal raw samples
C6_Witness ==
  /\ calState = "Verifying"
  /\ SumOfRaw # Zero
  /\ raw[1] # raw[3]
  /\ calibration_factor[1] # calibration_factor[3]

\* C7: four equal raw samples and a known weight of 2.0 give four equal
\* factors, and reading the same raw value again reports 0.5 kg
C7_EqualRawsHalfKilo ==
  (/\ calState = "Done"
   /\ knownWeight = R(2)
   /\ raw[1] # Zero
   /\ \A i \in Cells : raw[i] = raw[1]
   /\ measuredRaw = raw) =>
    /\ \A i \in Cells : calibration_factor[i] = calibration_factor[1]
    /\ \A i \in Cells : measuredWeight[i] = RNorm(1, 2)

\* C8: a tare, from the serial command, the K4 button or the menu, tares the
\* four cells and leaves every smoothing window zero-filled when it shows
\* its completion screen
C8_TareClearsWindows ==
  [][nTares' = nTares + 1 =>
       /\ \A i \in Cells : tareCount'[i] = tareCount[i] + 1
       /\ \A i \in Cells : \A j \in 1..SMOOTHING_SAMPLES :
            weightSamples'[i][j] = Zero
       /\ taraEffettuata'
       /\ Top' = "tareWait"]_vars

\* the menu's tare has completed after a cycle had filled a slot
C8_Witness ==
  /\ stack = <<"menu", "tareWait">>
  /\ nCycles >= 1
  /\ nTares = 1
  /\ smoothed[1] # Zero
  /\ \A i \in Cells : weightSamples[i] = ZeroWindow

\* C9: every smoothing window holds exactly the five most recent corrected
\* readings of its cell, zeros standing for readings not yet taken
C9_WindowHoldsRecent ==
  \A i \in Cells : \A j \in 1..SMOOTHING_SAMPLES :
    Count(weightSamples[i], recent[i][j]) = Count(recent[i], recent[i][j])

CellDigit == <<"1", "2", "3", "4">>

\* the non-zero values among ValueTokens, as numbers
NonZeroValue == [tok \in {"-1", "0.5", "2.0"} |->
                   IF tok = "-1" THEN <<-1, 1>>
                   ELSE IF tok = "0.5" THEN <<1, 2>> ELSE <<2, 1>>]

\* the step takes a c<n>,<value> command with n in 1..4 and a non-zero value
IsValidSet(line) ==
  \E c \in Cells : \E tok \in DOMAIN NonZeroValue :
    line = "c" \o CellDigit[c] \o "," \o tok

\* C11: the four scale factors change only in the Computing step of a
\* calibration session and on a valid c<n>,<value> command; every other
\* step (tare, p, s, d, cf, cycles, menu, Verifying, Done) leaves them alone
C11_FactorsFrame ==
  [][scaleVars' # scaleVars =>
       \/ calState = "Computing" /\ calState' = "Verifying"
       \/ AtLoop /\ nSet' = nSet + 1 /\ IsValidSet(input')]_vars

\* a session has changed the factors after a tare, and its Verifying step
\* has kept them
C11_Witness ==
  /\ nTares = 1
  /\ calState = "Done"
  /\ calibration_factor # DefaultFactors
  /\ SCALE = calibration_factor

\* C12: a c<n>,<value> command with n in 1..4 and any non-zero value, a
\* negative one included, makes that value the factor of cell n in the same
\* step and leaves the other three factors, the smoothing windows, the
\* measurement and the continuous-mode flag as they were
C12_SetChannel ==
  [][\A c \in Cells : \A tok \in DOMAIN NonZeroValue :
       (/\ AtLoop
        /\ nSet' = nSet + 1
        /\ input' = "c" \o CellDigit[c] \o "," \o tok) =>
         /\ calibration_factor' =
              [i \in Cells |-> IF i = c THEN NonZeroValue[tok]
                               ELSE calibration_factor[i]]
         /\ SCALE' =
              [i \in Cells |-> IF i = c THEN NonZeroValue[tok] ELSE SCALE[i]]
         /\ weightSamples' = weightSamples
         /\ measVars' = measVars
         /\ continuousMode' = continuousMode]_vars

\* cell 4 has been given the factor -1 after a cycle had measured a load
C12_Witness ==
  /\ input = "c4,-1"
  /\ nCycles = 1
  /\ totalWeight # Zero
  /\ SCALE[4] = R(-1)
  /\ calibration_factor[4] = R(-1)
  /\ SCALE[1] = DefaultFactors[1]

\* cf,<value> lines with a value that is not above zero
RejectedCorrection == {"cf," \o tok : tok \in {"-1", "0", "abc"}}

\* c<n>,<value> lines whose second character is not one of 1..4
RejectedCell ==
  {"c" \o ch \o "," \o tok : ch \in {"0", "5"}, tok \in ValueTokens}
    \cup {"cf,"}

\* c<n>,<value> lines with n in 1..4 and a value that is zero or no number
RejectedValue ==
  {"c" \o CellDigit[c] \o "," \o tok : c \in Cells, tok \in {"0", "abc", ""}}

\* C13: a rejected serial command (cf with a value <= 0, c<n> with n outside
\* 1..4, c<n> with a value that is 0 or not a number) prints its refusal and
\* changes neither the scale factors nor anything else the sketch holds
C13_RejectedCommands ==
  [][(/\ AtLoop
      /\ nSet' = nSet + 1
      /\ input' \in RejectedCorrection \cup RejectedCell \cup RejectedValue) =>
       /\ input' \in RejectedCorrection =>
            serialOut' = "Invalid correction factor (must be > 0)"
       /\ input' \in RejectedCell =>
            serialOut' = "Invalid cell number (must be 1-4)"
       /\ input' \in RejectedValue =>
            serialOut' = "Invalid calibration value"
       /\ UNCHANGED <<scaleVars, OFFSET, continuousMode, taraEffettuata,
                      measVars, winVars, sampleIndex, ctlVars, calVars>>]_vars

\* cf,-1 has been refused after a cycle had measured a load
C13_Witness ==
  /\ input = "cf,-1"
  /\ serialOut = "Invalid correction factor (must be > 0)"
  /\ nCycles = 1
  /\ totalWeight # Zero
  /\ SCALE = DefaultFactors

InSession == {"AwaitingTare", "AwaitingKnownWeight", "Sampling",
              "Computing", "Verifying"}

\* C14: continuous reading is off in every state of a running calibration
\* session, and when the session reaches Done the flag is what it was just
\* before the session started
C14_ModeRestored ==
  [][/\ (calState = "Idle" /\ calState' = "AwaitingTare") =>
          prevMode' = continuousMode
     /\ calState' \in InSession => continuousMode' = FALSE
     /\ (calState \in InSession /\ calState' \in InSession \cup {"Done"}) =>
          prevMode' = prevMode
     /\ (calState = "Verifying" /\ calState' = "Done") =>
          continuousMode' = prevMode]_vars

\* a session started with continuous reading on has reached Done
C14_Witness ==
  /\ calState = "Done"
  /\ prevMode = TRUE
  /\ continuousMode = TRUE
  /\ DOMAIN measuredWeight = Cells

AllEqual(w) == \A i \in Cells : w[i] = w[1]

\* C15, as stated: a cycle whose four rounded weights are all equal gives a
\* lateral offset of 0 mm and a longitudinal CoG of BASE_LENGTH / 2 = 125 mm
C15_SymmetricAsStated ==
  (nCycles >= 1 /\ AllEqual(weight)) =>
    lateralCogDiff = 0 /\ cogY = BASE_LENGTH \div 2

\* C15, amended: a cycle whose four rounded weights are all equal and add up
\* to more than 0.01 kg gives a lateral offset of 0 mm and a longitudinal
\* CoG of 125 mm
C15_SymmetricLoaded ==
  (nCycles >= 1 /\ AllEqual(weight) /\ RGt(totalWeight, RNorm(1, 100))) =>
    lateralCogDiff = 0 /\ cogY = BASE_LENGTH \div 2

\* a cycle has weighed four equal loads
C15_Witness ==
  /\ nCycles >= 1
  /\ AllEqual(weight)
  /\ RGt(weight[1], Zero)
  /\ RGt(totalWeight, RNorm(1, 100))
  /\ cogY = 125

Scaling == nCycles = 1 /\ nCycles' = 2

\* C16, as stated: multiplying the four rounded weights by one positive
\* constant leaves the lateral offset and the longitudinal CoG unchanged
C16_ScaleAsStated ==
  [][Scaling => lateralCogDiff' = lateralCogDiff /\ cogY' = cogY]_vars

\* C16, amended: multiplying the four rounded weights by one positive
\* constant leaves the lateral offset and the longitudinal CoG unchanged
\* when the total exceeds 0.01 kg before and after the multiplication
C16_ScaleAboveThreshold ==
  [][(/\ Scaling
      /\ RGt(totalWeight, RNorm(1, 100))
      /\ RGt(totalWeight', RNorm(1, 100))) =>
        lateralCogDiff' = lateralCogDiff /\ cogY' = cogY]_vars

\* scaled weights whose total was above 0.01 kg before the multiplication
\* too (the constant is at most MaxScale) and whose CoG is off centre
C16_Witness ==
  /\ nCycles = 2
  /\ lim.cycles = 0
  /\ RGt(totalWeight, RNorm(MaxScale, 100))
  /\ lateralCogDiff # 0
  /\ cogY \notin {0, BASE_LENGTH \div 2}

\* C17: a read that finds an amplifier without a sample still returns to
\* its caller: the acquisition cycle does not wait forever
C17_ReadReturns == (stack = <<"read">>) ~> (stack # <<"read">>)

\* C18: every acquisition cycle, whether run by loop() or by the refresh
\* of the CG View and Lateral Balance screens, advances the write index by
\* one modulo SMOOTHING_SAMPLES, and the index stays in 0..N-1
C18_IndexAdvances ==
  [][/\ nCycles' = nCycles + 1 =>
          sampleIndex' = (sampleIndex + 1) % SMOOTHING_SAMPLES
     /\ sampleIndex' \in 0..(SMOOTHING_SAMPLES - 1)]_vars

\* C19: every tare of the cells, the one of a calibration session's
\* AwaitingTare step included, leaves no smoothing-window slot holding a
\* reading taken before it: every slot is zero afterwards
C19_TareInvalidatesHistory ==
  [][(\E i \in Cells : tareCount'[i] = tareCount[i] + 1) =>
       \A i \in Cells : \A j \in 1..SMOOTHING_SAMPLES :
         weightSamples'[i][j] = Zero]_vars

\* cell coordinates in mm as the claim gives them
StatedX == <<-135, 135, -135, 135>>

StatedY == <<0, 0, 250, 250>>

WeightedSum(w, pos) == RSum([i \in Cells |-> RMul(w[i], R(pos[i]))], 4)

\* x rounded to 0.01 kg; an infinite or undefined x stays what it is
RoundedKg(x) ==
  IF IsFinite(x) THEN RNorm(RRound(RMul(x, R(100))), 100) ELSE x

\* the integer v is the rounding of the quotient q
IsRounded(v, q) == IsFinite(q) /\ v = RRound(q)

C21_SessionMonopolises ==
  [][(calState # "Idle" \/ calState' # "Idle") =>
       /\ UNCHANGED <<measVars, winVars, sampleIndex>>
       /\ UNCHANGED <<nCycles, nTares, nSet, nCmd, stack, taraEffettuata>>
       /\ calState # "Idle" => nCal' = nCal
       /\ calState' \in InSession => ~continuousMode']_vars

\* a session started after a loaded cycle has reached Done
C21_Witness ==
  /\ calState = "Done"
  /\ nCycles >= 1
  /\ RGt(totalWeight, Zero)
  /\ weightSamples[1][1] # Zero

\* C22: with continuous mode off no step runs an acquisition cycle, so the
\* total weight and the CoG fields keep their values
C22_CyclesOnlyWhenContinuous ==
  [][~continuousMode =>
       /\ nCycles' = nCycles
       /\ UNCHANGED <<totalWeight, cogX, cogY, wingCogX, lateralCogDiff,
                      cogPercentage>>]_vars

\* the tare-now called from loop() is still running
InTareNow == stack # <<>> /\ stack[1] = "tareWait"

\* C23: a tare-now called from loop() waits for K4, then opens the main
\* menu, and returns to loop() only when that menu is left with K4; until
\* then loop() runs no acquisition cycle and the 'Tare completed' report of
\* the serial command is not written
C23_TareNowHoldsLoop ==
  [][/\ (stack = <<>> /\ nTares' = nTares + 1) => stack' = <<"tareWait">>
     /\ stack = <<"tareWait">> =>
          \/ stack' = stack
          \/ stack' = <<"tareWait", "menu">> /\ menuActive' /\ menuPosition' = 0
     /\ (InTareNow /\ stack' = <<>>) =>
          stack = <<"tareWait", "menu">> /\ ~menuActive'
     /\ InTareNow =>
          sampleIndex' = sampleIndex /\ serialOut' # "MEASUREMENT REPORT"
     /\ (InTareNow /\ serialOut' = "Tare completed") =>
          stack' = <<>> /\ entry = "serial_z"]_vars

\* the serial tare has returned to loop() after K4 and the menu's K4
C23_Witness ==
  /\ stack = <<>>
  /\ nTares = 1
  /\ taraEffettuata
  /\ serialOut = "Tare completed"

\* live activations of the function f
Live(st, f) == Cardinality({k \in 1..Len(st) : st[k] = f})

\* C24: Scale Tare chosen in the main menu runs tareScales on top of that
\* menu, and K4 in its wait opens a new menu on top of both instead of
\* returning: each round adds one live tareScales and one live showMainMenu
C24_MenuNests ==
  [][/\ (Top = "menu" /\ nTares' = nTares + 1) =>
          /\ stack' = Append(stack, "tareWait")
          /\ Live(stack', "tareWait") = Live(stack, "tareWait") + 1
     /\ (Top = "tareWait" /\ stack' # stack) =>
          /\ stack' = Append(stack, "menu")
          /\ Live(stack', "menu") = Live(stack, "menu") + 1]_vars

\* every tare the behaviour is allowed was chosen in the menu opened by the
\* one before: as many tareScales as tares are live, and one menu more
C24_Witness ==
  /\ Live(stack, "menu") = nTares + 1
  /\ Live(stack, "tareWait") = nTares
  /\ nTares = lim.tares
  /\ nTares >= 2
  /\ Len(stack) = lim.depth

\* C25: whenever control is in loop(), menuActive is false, so checkButtons
\* never takes its 'K4 leaves the active menu' branch
C25_MenuInactiveInLoop == stack = <<>> => ~menuActive

\* loop() runs again after K1 and K4 were held together: the menu was
\* opened and left, the tare ran, its menu was opened and left
C25_Witness ==
  /\ stack = <<>>
  /\ calState = "Idle"
  /\ ~menuActive
  /\ nTares >= 1
  /\ entry = "none"
  /\ input = ""

NonNegative(x) == ~IsNaN(x) /\ ~RGt(Zero, x)

Int16 == -32768..32767

\* C27: for any four rounded weights, negative ones included, whose total
\* exceeds 0.01 kg, the rounded lateral offset, longitudinal CoG and
\* percentage lie in the signed 16-bit range, so the fields hold them as
\* computed
C27_FitsInt16 ==
  (nCycles >= 1 /\ RGt(totalWeight, RNorm(1, 100))) =>
    LET lateral == RRound(RDiv(WeightedSum(weight, StatedX), totalWeight))
        longitudinal ==
          RRound(RDiv(WeightedSum(weight, StatedY), totalWeight))
    IN  /\ lateral \in Int16 /\ lateralCogDiff = lateral
        /\ longitudinal \in Int16 /\ cogY = longitudinal
        /\ RRound(RNorm(longitudinal * 100, 120)) \in Int16

====
